---- MODULE Spec2Model ----
(***************************************************************************)
(* Node/Compute orchestration of gns3-server: one Node of one Project,     *)
(* driven through the operations of src/gns3server/handlers/               *)
(* virtualbox_handler.py and of the controller VM exercised by             *)
(* src/tests/controller/test_vm.py.  Every remote call is a suspension     *)
(* point: a task issues it, waits, and is resumed with success or failure. *)
(* The settings of the server, src/gns3server/config.py, are the second    *)
(* part: the parsed configuration, its overrides and the polling watcher.  *)
(***************************************************************************)
EXTENDS Integers, Sequences, FiniteSets, TLC

\* ---------------------------------------------------------------- bounds
\* Largest adapter count (and adapter index) the requests carry.
MaxAdapters == 2
\* Largest modification time a configuration file takes.
MaxMtime == 2

\* ------------------------------------------------------------- constants
None == "None"
PROJECT_ID == "P"
VM_ID == "n"
NodeTypes == {"vpcs"}
Names == {"demo", "vm2"}
VmNames == {"vbox", "x"}
ConsoleTypes == {"vnc"}
Consoles == {"2048", "5000"}
\* Property keys the Node is constructed with, and those a response may carry.
InitPropKeys == {"startup_script"}
RespPropKeys == {"startup_script", "test_value"}
NioKinds == {"nio_udp"}
NioSpecs == NioKinds \cup {"nio_bogus"}
RpcErrors == {"RpcError", "RpcTransportError"}
Live == {"Created", "Started", "Stopped", "Suspended"}
Actions == {"start", "stop", "suspend", "resume", "reload"}
SeqTasks == {"t1"}
Tasks == {"t1", "t2"}

EmptyMap == [k \in {} |-> None]

\* A function with one more (or one overwritten) key.
Put(f, k, v) == [x \in DOMAIN f \cup {k} |-> IF x = k THEN v ELSE f[x]]

\* Every function from a subset of keys to vals.
PartialMaps(keys, vals) == UNION {[D -> vals] : D \in SUBSET keys}

\* ----------------------------------------------------------------- state
VARIABLES
    vm,                 \* the Node: its locally cached fields
    registry,           \* ids of the Nodes in the Project's node map
    tasks,              \* per task: the handler invocation it is running
    adapters_settable,  \* whether setattr(vm, "adapters", value) assigns (TRUE)
                        \* or raises AttributeError (FALSE): the class of the
                        \* Node decides it, once and for all
    config,             \* Config._config: section name -> key -> value
    override_config,    \* Config._override_config: section name -> content
    watched_files,      \* Config._watched_files: file -> recorded mtime
    disk,               \* the configuration files as they are on disk
    timers,             \* pending call_later(1, _check_config_file_change)
    result,             \* what the last call of the Config API gave back
    overridden          \* per section and key, the value last passed to
                        \* set_section_config

cfgVars == <<config, override_config, watched_files, disk, timers, result, overridden>>

vars == <<vm, registry, tasks, adapters_settable, cfgVars>>

IdleTask ==
    [pc |-> "idle", op |-> "none", wait |-> "none", changes |-> EmptyMap,
     rem |-> <<>>, idx |-> 0, nio |-> None, rpcs |-> <<>>, err |-> "none",
     resp |-> EmptyMap, ret |-> None, pre |-> EmptyMap, preReg |-> {},
     sub_path |-> <<>>, body |-> EmptyMap, file |-> None]

\* ----------------------------------------------------------------- paths
\* "/projects/{project_id}/{node_type}/vms", as its segments.
VmsPath(v) == <<"projects", PROJECT_ID, v.node_type, "vms">>

\* NodePath without the id of the Node.
NodePathNoId(v, sub_path) == VmsPath(v) \o sub_path

\* "/projects/{project_id}/{node_type}/vms/{vm_id}" followed by sub_path.
NodePath(v, sub_path) == VmsPath(v) \o <<VM_ID>> \o sub_path

\* compute.post(path) / compute.post(path, data=data) / compute.delete(path)
Post(path) == [call |-> "compute.post", path |-> path, body |-> FALSE, data |-> EmptyMap]
PostData(path, data) == [call |-> "compute.post", path |-> path, body |-> TRUE, data |-> data]
Delete(path) == [call |-> "compute.delete", path |-> path, body |-> FALSE, data |-> EmptyMap]

\* ------------------------------------------------------------------ Init
\* ---------------------------------------------------------------- config
\* Config._files, in the order they are read.
Files == <<"server.conf", "cloud.conf">>
FileSet == {Files[i] : i \in DOMAIN Files}
DEFAULT == "DEFAULT"
Sections == {"Server", "Qemu"}
\* The section the callers of set_section_config override.
OverrideSections == {"Server"}

\* A file that is not there, and a file with an mtime and parsed content.
NoFile == [exists |-> FALSE, mtime |-> 0, content |-> EmptyMap, parses |-> TRUE]
File(mtime, content) ==
    [exists |-> TRUE, mtime |-> mtime, content |-> content, parses |-> TRUE]

\* A file whose first line is no section header: configparser raises
\* MissingSectionHeaderError on it before it has stored anything.
Malformed(mtime) ==
    [exists |-> TRUE, mtime |-> mtime, content |-> EmptyMap, parses |-> FALSE]

\* What a configuration file holds: section -> key -> value.
FileContents ==
    {[s \in {"Server"} |-> [k \in {"host"} |-> "f"]],
     [s \in {DEFAULT, "Server"} |->
         IF s = DEFAULT THEN [k \in {"host"} |-> "d"] ELSE [k \in {"port"} |-> "f"]]}

\* The contents passed to set_section_config.
OverrideContents == {[k \in {"host"} |-> "o"], [k \in {"port"} |-> "o"]}

\* b laid over a: the keys of both, b's value where both have one.
Overlay(a, b) ==
    [k \in DOMAIN a \cup DOMAIN b |-> IF k \in DOMAIN b THEN b[k] ELSE a[k]]

\* configparser read of one parsed file into cfg: its sections are added,
\* its keys set, everything else stays.
ReadFile(cfg, content) ==
    [s \in DOMAIN cfg \cup DOMAIN content |->
        IF s \notin DOMAIN content THEN cfg[s]
        ELSE IF s \in DOMAIN cfg THEN Overlay(cfg[s], content[s])
        ELSE content[s]]

\* self._config.read(self._files) raises: one of the files does not parse.
ReadRaises(d) == \E f \in FileSet : d[f].exists /\ ~d[f].parses

RECURSIVE ReadFiles(_, _, _)
\* self._config.read(self._files): the files that can be opened, in order,
\* up to the first one that does not parse.
ReadFiles(cfg, d, i) ==
    IF i > Len(Files) THEN cfg
    ELSE IF d[Files[i]].exists /\ ~d[Files[i]].parses THEN cfg
    ELSE ReadFiles(IF d[Files[i]].exists THEN ReadFile(cfg, d[Files[i]].content) ELSE cfg,
                   d, i + 1)

\* read_config: the configuration after the read.
ReadConfig(cfg, d) == ReadFiles(cfg, d, 1)

\* read_config: the recorded mtimes after the read, those of the parsed files
\* refreshed.
ReadWatched(watched, d) ==
    LET parsed_files == {f \in FileSet : d[f].exists}
    IN [f \in DOMAIN watched \cup parsed_files |->
            IF f \in parsed_files THEN d[f].mtime ELSE watched[f]]

\* "section in self._config": the default section always is.
InConfig(cfg, section) == section = DEFAULT \/ section \in DOMAIN cfg \ {DEFAULT}

\* self._config[name]: the keys of the section over those of DEFAULT.
SectionProxy(cfg, name) ==
    [name |-> name, content |-> Overlay(cfg[DEFAULT], cfg[name])]

\* add_section if missing, then set every key of content.
SetSection(cfg, section, content) ==
    [s \in DOMAIN cfg \cup {section} |->
        IF s # section THEN cfg[s]
        ELSE IF s \in DOMAIN cfg THEN Overlay(cfg[s], content) ELSE content]

RECURSIVE ApplyOverrides(_, _, _)
\* for section in self._override_config: set_section_config(section, ...)
ApplyOverrides(cfg, override, todo) ==
    IF todo = {} THEN cfg
    ELSE LET section == CHOOSE x \in todo : TRUE
         IN ApplyOverrides(SetSection(cfg, section, override[section]),
                           override, todo \ {section})

NoResult ==
    [op |-> "none", section |-> "none", name |-> "none", content |-> EmptyMap,
     err |-> "none"]

\* Config.__init__ with the files d on disk: read_config and the first timer.
ConfigInit(disks) ==
    /\ disk \in disks
    /\ config = ReadConfig([s \in {DEFAULT} |-> EmptyMap], disk)
    /\ watched_files = ReadWatched(EmptyMap, disk)
    /\ override_config = EmptyMap
    /\ timers = 1
    /\ result = NoResult
    /\ overridden = EmptyMap

NoDisk == [f \in FileSet |-> NoFile]
Disks == [FileSet -> {NoFile} \cup {File(1, c) : c \in FileContents}]

\* The environment writes a configuration file, well-formed or not.
WriteFile ==
    /\ \E f \in FileSet, mtime \in 1..MaxMtime :
          \E file \in {File(mtime, c) : c \in FileContents} \cup {Malformed(mtime)} :
              disk' = [disk EXCEPT ![f] = file]
    /\ UNCHANGED <<vm, registry, tasks, adapters_settable, config, override_config,
                   watched_files, timers, result, overridden>>

\* The environment removes a configuration file.
RemoveFile ==
    /\ \E f \in FileSet : disk[f].exists /\ disk' = [disk EXCEPT ![f] = NoFile]
    /\ UNCHANGED <<vm, registry, tasks, adapters_settable, config, override_config,
                   watched_files, timers, result, overridden>>

\* os.stat(file).st_mtime != self._watched_files[file], OSError skipped.
Changed(watched, d) ==
    \E file \in DOMAIN watched : d[file].exists /\ d[file].mtime # watched[file]

\* What the timer callback did: read_config called or not, and the
\* exception that left the callback, if any.
Checked(name, err) ==
    [op |-> "check", section |-> "none", name |-> name, content |-> EmptyMap,
     err |-> err]

\* _check_config_file_change, the timer callback: re-read when a watched
\* file changed, set the overrides again, schedule the next check.  The
\* exception of a read that fails leaves the callback at once: the files
\* before the one that does not parse are read in, nothing after line 119
\* runs.
CheckConfigFileChange ==
    /\ timers > 0
    /\ LET changed == Changed(watched_files, disk)
       IN IF changed /\ ReadRaises(disk)
          THEN /\ config' = ReadConfig(config, disk)
               /\ watched_files' = watched_files
               /\ timers' = timers - 1
               /\ result' = Checked("read", "ParsingError")
          ELSE LET cfg == IF changed THEN ReadConfig(config, disk) ELSE config
               IN /\ config' =
                        ApplyOverrides(cfg, override_config, DOMAIN override_config)
                  /\ watched_files' =
                        IF changed THEN ReadWatched(watched_files, disk)
                        ELSE watched_files
                  /\ timers' = (timers - 1) + 1
                  /\ result' = Checked(IF changed THEN "read" ELSE "skip", "none")
    /\ UNCHANGED <<vm, registry, tasks, adapters_settable, override_config, disk,
                   overridden>>

\* GetSectionConfig that looks the section up whether it is there or not.
GetSectionConfigStrict(section) ==
    /\ result' = IF section \in DOMAIN config
                 THEN [op |-> "get", section |-> section, name |-> section,
                       content |-> SectionProxy(config, section).content,
                       err |-> "none"]
                 ELSE [op |-> "get", section |-> section, name |-> "none",
                       content |-> EmptyMap, err |-> "KeyError"]
    /\ UNCHANGED <<vm, registry, tasks, adapters_settable, config, override_config,
                   watched_files, disk, timers, overridden>>

\* get_section_config(section)
GetSectionConfig(section) ==
    /\ LET proxy == IF ~InConfig(config, section)
                    THEN SectionProxy(config, DEFAULT)
                    ELSE SectionProxy(config, section)
       IN result' = [op |-> "get", section |-> section, name |-> proxy.name,
                     content |-> proxy.content, err |-> "none"]
    /\ UNCHANGED <<vm, registry, tasks, adapters_settable, config, override_config,
                   watched_files, disk, timers, overridden>>

\* set_section_config(section, content); add_section refuses the name of
\* the default section with ValueError.
SetSectionConfig(section, content) ==
    IF section = DEFAULT
    THEN /\ result' = [op |-> "set", section |-> section, name |-> "none",
                       content |-> EmptyMap, err |-> "ValueError"]
         /\ UNCHANGED <<vm, registry, tasks, adapters_settable, config,
                        override_config, watched_files, disk, timers, overridden>>
    ELSE /\ config' = SetSection(config, section, content)
         /\ override_config' = Put(override_config, section, content)
         /\ overridden' = Put(overridden, section,
                Overlay(IF section \in DOMAIN overridden THEN overridden[section]
                        ELSE EmptyMap, content))
         /\ result' = [op |-> "set", section |-> section, name |-> section,
                       content |-> content, err |-> "none"]
         /\ UNCHANGED <<vm, registry, tasks, adapters_settable, watched_files,
                        disk, timers>>

\* ------------------------------------------------------------------ Init
\* The Node as constructed, not yet created remotely, with a console among
\* consoles and a properties mapping among props; the server's Config
\* constructed with the files of one of disks.
InitWith(consoles, props, counts, settable, disks) ==
    /\ ConfigInit(disks)
    /\ adapters_settable \in settable
    /\ \E nt \in NodeTypes, c \in consoles, ct \in ConsoleTypes, p \in props,
          a \in counts :
          vm = [state |-> "Pending", node_type |-> nt, name |-> "demo",
                console |-> c, console_type |-> ct, properties |-> p,
                vmname |-> "vbox", adapters |-> a, nios |-> EmptyMap]
    /\ registry = {}
    /\ tasks = [t \in Tasks |-> IdleTask]

\* The Node of the vm fixture: no console, properties {"startup_script": "echo test"}.
Init ==
    InitWith({None}, {[k \in InitPropKeys |-> "echo test"]}, 0..MaxAdapters,
             BOOLEAN, {NoDisk})

\* The server's Config over every set of files on disk; the Node is not used.
InitConfig ==
    InitWith({None}, {[k \in InitPropKeys |-> "echo test"]}, {0}, {TRUE}, Disks)

\* Every construction: a console set or not, each property absent, None or set.
InitCreate ==
    InitWith({None} \cup Consoles, PartialMaps(InitPropKeys, {"echo test", None}),
             0..MaxAdapters, BOOLEAN, {NoDisk})

\* A task that starts running operation op on the Node as it is now.
Begin(op) == [IdleTask EXCEPT !.op = op, !.pre = vm, !.preReg = registry]

\* The task suspends on one remote call.
Suspend(task, wait, rpc) ==
    [task EXCEPT !.pc = "rpc", !.wait = wait, !.rpcs = Append(@, rpc)]

Finish(task, err) == [task EXCEPT !.pc = "done", !.wait = "none", !.err = err]

\* get_vm(vm_id, project_id): the handler answers 404 for an unknown Node.
GetVm == VM_ID \in registry

\* ---------------------------------------------------------------- create
\* CreateData without the removal of the None values.
CreateDataUnfiltered(v) ==
    Put(Put(Put(Put(v.properties, "vm_id", VM_ID), "name", v.name),
            "console", v.console), "console_type", v.console_type)

\* The request payload: the properties and the scalar attributes, without
\* the keys whose value is None.
CreateData(v) ==
    LET data == Put(Put(Put(Put(v.properties, "vm_id", VM_ID), "name", v.name),
                        "console", v.console), "console_type", v.console_type)
        kept == {k \in DOMAIN data : data[k] # None}
    IN [k \in kept |-> data[k]]

\* create(): POST the payload to the collection path.
CreateCall(t) ==
    /\ tasks[t].pc = "idle"
    /\ vm.state = "Pending"
    /\ tasks' = [tasks EXCEPT ![t] =
            Suspend(Begin("create"), "create", PostData(VmsPath(vm), CreateData(vm)))]
    /\ UNCHANGED <<vm, registry, adapters_settable, cfgVars>>

\* A response to a create: the console the engine allocated, and the
\* property keys in D, known to the Node or not.
ResponseOf(c, D) == [k \in {"console"} \cup D |-> IF k = "console" THEN c ELSE "success"]

Responses == {ResponseOf(c, D) : c \in Consoles, D \in SUBSET RespPropKeys}

\* The two responses of test_create and test_create_without_console.
FixtureResponses == {ResponseOf("2048", {}), ResponseOf("2048", {"test_value"})}

\* MergeProperties taking from the response only the keys already known.
MergePropertiesKnown(props, response) ==
    [k \in DOMAIN props |-> IF k \in DOMAIN response THEN response[k] ELSE props[k]]

\* Merge of the response: console into the attribute, every other key into
\* the properties mapping.
MergeProperties(props, response) ==
    [k \in DOMAIN props \cup (DOMAIN response \ {"console"}) |->
        IF k \in DOMAIN response THEN response[k] ELSE props[k]]

\* MergeResponse keeping a console the Node already holds.
MergeResponseKeepConsole(v, response) ==
    [v EXCEPT !.console = IF @ = None /\ "console" \in DOMAIN response
                          THEN response["console"] ELSE @,
              !.properties = MergeProperties(@, response),
              !.state = "Created"]

MergeResponse(v, response) ==
    [v EXCEPT !.console = IF "console" \in DOMAIN response THEN response["console"] ELSE @,
              !.properties = MergeProperties(@, response),
              !.state = "Created"]

CreateOk(t, responses) ==
    /\ tasks[t].pc = "rpc"
    /\ tasks[t].wait = "create"
    /\ \E r \in responses :
          /\ vm' = MergeResponse(vm, r)
          /\ tasks' = [tasks EXCEPT ![t] = [Finish(@, "none") EXCEPT !.resp = r]]
    /\ registry' = registry \cup {VM_ID}
    /\ UNCHANGED <<adapters_settable, cfgVars>>

\* ------------------------------------------------------------- lifecycle
\* The call of start(), stop(), suspend(), resume(), reload(): a POST with
\* no body to the action path.
ActionRpc(v, action) == Post(NodePath(v, <<action>>))

\* ActionCall with the lifecycle state moved before the call is confirmed.
ActionCallOptimistic(t, action) ==
    /\ tasks[t].pc = "idle"
    /\ GetVm
    /\ tasks' = [tasks EXCEPT ![t] =
            Suspend(Begin(action), "action", Post(NodePath(vm, <<action>>)))]
    /\ vm' = [vm EXCEPT !.state = IF action \in {"stop"} THEN "Stopped" ELSE "Started"]
    /\ UNCHANGED <<registry, adapters_settable, cfgVars>>

\* The handler of an action: get_vm, then the action of the Node.
ActionCall(t, action) ==
    /\ tasks[t].pc = "idle"
    /\ GetVm
    /\ tasks' = [tasks EXCEPT ![t] =
            Suspend(Begin(action), "action", ActionRpc(vm, action))]
    /\ UNCHANGED <<vm, registry, adapters_settable, cfgVars>>

\* The lifecycle state a confirmed action leaves the Node in.
ActionState(action, reported) ==
    CASE action = "start" -> "Started"
      [] action = "stop" -> "Stopped"
      [] action = "suspend" -> "Suspended"
      [] action = "resume" -> "Started"
      [] action = "reload" -> reported

ActionOk(t) ==
    /\ tasks[t].pc = "rpc"
    /\ tasks[t].wait = "action"
    /\ \E reported \in {"Started", "Stopped"} :
          vm' = [vm EXCEPT !.state = ActionState(tasks[t].op, reported)]
    /\ tasks' = [tasks EXCEPT ![t] = Finish(@, "none")]
    /\ UNCHANGED <<registry, adapters_settable, cfgVars>>

\* ------------------------------------------------------ post and delete
\* The sub-resources and the bodies the callers of post() and delete() pass.
SubPaths == {<<"test">>, <<"adapters", "0", "start_capture">>}
Bodies == {[k \in {"a"} |-> "b"], EmptyMap}

\* post(sub_path, body): compute.post on the path of the Node plus sub_path.
VmPostCall(t) ==
    /\ tasks[t].pc = "idle"
    /\ \E sub_path \in SubPaths, body \in Bodies :
          tasks' = [tasks EXCEPT ![t] =
              Suspend([Begin("post") EXCEPT !.sub_path = sub_path, !.body = body],
                      "forward", PostData(NodePath(vm, sub_path), body))]
    /\ UNCHANGED <<vm, registry, adapters_settable, cfgVars>>

\* delete(sub_path): compute.delete on the path of the Node plus sub_path.
VmDeleteCall(t) ==
    /\ tasks[t].pc = "idle"
    /\ \E sub_path \in SubPaths :
          tasks' = [tasks EXCEPT ![t] =
              Suspend([Begin("delete_sub") EXCEPT !.sub_path = sub_path],
                      "forward", Delete(NodePath(vm, sub_path)))]
    /\ UNCHANGED <<vm, registry, adapters_settable, cfgVars>>

\* The forwarded call has answered: its result goes back to the caller.
ForwardOk(t) ==
    /\ tasks[t].pc = "rpc"
    /\ tasks[t].wait = "forward"
    /\ tasks' = [tasks EXCEPT ![t] = Finish(@, "none")]
    /\ UNCHANGED <<vm, registry, adapters_settable, cfgVars>>

\* ---------------------------------------------------------------- update
UpdateKeys == {"name", "vmname", "adapters", "ram"}

\* A request body of update: the values of the keys in D.
ChangesOf(D, n, vn, a) ==
    [k \in D |-> CASE k = "name" -> n
                   [] k = "vmname" -> vn
                   [] k = "adapters" -> a
                   [] OTHER -> "512"]

\* The orders in which request.json.items() may yield the keys of D.
Orders(D) ==
    {s \in [1..Cardinality(D) -> D] : \A i, j \in 1..Cardinality(D) : s[i] = s[j] => i = j}

\* UpdateLoop renaming for every vmname key, changed or not.
RECURSIVE UpdateLoopRenameAlways(_, _, _, _)
UpdateLoopRenameAlways(v, rem, changes, settable) ==
    IF rem = <<>> THEN [vm |-> v, rem |-> rem, stop |-> "end"]
    ELSE LET name == Head(rem)
             value == changes[name]
         IN IF name = "vmname"
            THEN [vm |-> [v EXCEPT ![name] = value], rem |-> Tail(rem), stop |-> "rename"]
            ELSE IF name \in DOMAIN v /\ v[name] # value
                 THEN IF name = "adapters" /\ ~settable
                      THEN [vm |-> v, rem |-> Tail(rem), stop |-> "AttributeError"]
                      ELSE UpdateLoopRenameAlways([v EXCEPT ![name] = value], Tail(rem),
                                                  changes, settable)
                 ELSE UpdateLoopRenameAlways(v, Tail(rem), changes, settable)

\* The loop over request.json.items(), run from the keys in rem up to its
\* next suspension (the rename), its end, or the error of a refused setattr.
RECURSIVE UpdateLoop(_, _, _, _)
UpdateLoop(v, rem, changes, settable) ==
    IF rem = <<>> THEN [vm |-> v, rem |-> rem, stop |-> "end"]
    ELSE LET name == Head(rem)
             value == changes[name]
         IN IF name \in DOMAIN v /\ v[name] # value
            THEN IF name = "adapters" /\ ~settable
                 THEN [vm |-> v, rem |-> Tail(rem), stop |-> "AttributeError"]
                 ELSE IF name = "vmname"
                      THEN [vm |-> [v EXCEPT ![name] = value], rem |-> Tail(rem),
                            stop |-> "rename"]
                      ELSE UpdateLoop([v EXCEPT ![name] = value], Tail(rem),
                                      changes, settable)
            ELSE UpdateLoop(v, Tail(rem), changes, settable)

\* vm.rename_in_virtualbox() and vm.set_adapters(adapters), as remote calls.
Rename(v) == [call |-> "vm.rename_in_virtualbox", arg |-> v.vmname]
Resize(adapters) == [call |-> "vm.set_adapters", arg |-> adapters]

\* Whether the handler goes on to call vm.set_adapters after the loop.
NeedsResize(v, changes) ==
    "adapters" \in DOMAIN changes /\ changes["adapters"] # v.adapters

\* Where the handler stands once the loop has run as far as r says.
AfterLoop(task, r) ==
    CASE r.stop = "rename" ->
            Suspend([task EXCEPT !.rem = r.rem], "rename", Rename(r.vm))
      [] r.stop = "AttributeError" ->
            Finish([task EXCEPT !.rem = r.rem], "AttributeError")
      [] OTHER ->
            IF NeedsResize(r.vm, task.changes)
            THEN Suspend([task EXCEPT !.rem = <<>>], "set_adapters",
                         Resize(task.changes["adapters"]))
            ELSE Finish([task EXCEPT !.rem = <<>>], "none")

UpdateCall(t) ==
    /\ tasks[t].pc = "idle"
    /\ GetVm
    /\ \E D \in SUBSET UpdateKeys, n \in Names, vn \in VmNames, a \in 0..MaxAdapters :
       \E order \in Orders(D) :
          LET changes == ChangesOf(D, n, vn, a)
              r == UpdateLoop(vm, order, changes, adapters_settable)
          IN /\ vm' = r.vm
             /\ tasks' = [tasks EXCEPT ![t] =
                    AfterLoop([Begin("update") EXCEPT !.changes = changes], r)]
    /\ UNCHANGED <<registry, adapters_settable, cfgVars>>

\* set_adapters confirmed: the new count, without the bindings beyond it.
SetAdapters(v, adapters) ==
    [v EXCEPT !.adapters = adapters,
              !.nios = [i \in {j \in DOMAIN v.nios : j < adapters} |-> v.nios[i]]]

\* The awaited rename or resize is confirmed and update goes on.
UpdateResume(t) ==
    /\ tasks[t].pc = "rpc"
    /\ tasks[t].wait \in {"rename", "set_adapters"}
    /\ IF tasks[t].wait = "rename"
       THEN LET r == UpdateLoop(vm, tasks[t].rem, tasks[t].changes, adapters_settable)
            IN /\ vm' = r.vm
               /\ tasks' = [tasks EXCEPT ![t] = AfterLoop(@, r)]
       ELSE /\ vm' = SetAdapters(vm, tasks[t].changes["adapters"])
            /\ tasks' = [tasks EXCEPT ![t] = Finish(@, "none")]
    /\ UNCHANGED <<registry, adapters_settable, cfgVars>>

\* ---------------------------------------------------------------- delete
\* DeleteCall erasing the Node from the registry before the remote delete.
DeleteCallEager(t) ==
    /\ tasks[t].pc = "idle"
    /\ GetVm
    /\ tasks' = [tasks EXCEPT ![t] =
            Suspend(Begin("delete"), "delete", Delete(NodePath(vm, <<>>)))]
    /\ registry' = registry \ {VM_ID}
    /\ UNCHANGED <<vm, adapters_settable, cfgVars>>

\* delete_vm(vm_id): the remote delete, the registry untouched until it answers.
\* DeleteCall that waits until no other call on the Node is in flight.
DeleteCallSerialized(t) ==
    /\ tasks[t].pc = "idle"
    /\ GetVm
    /\ \A u \in Tasks : tasks[u].pc # "rpc"
    /\ tasks' = [tasks EXCEPT ![t] =
            Suspend(Begin("delete"), "delete", Delete(NodePath(vm, <<>>)))]
    /\ UNCHANGED <<vm, registry, adapters_settable, cfgVars>>

\* delete: the remote delete of the Node, awaited.
DeleteCall(t) ==
    /\ tasks[t].pc = "idle"
    /\ GetVm
    /\ tasks' = [tasks EXCEPT ![t] =
            Suspend(Begin("delete"), "delete", Delete(NodePath(vm, <<>>)))]
    /\ UNCHANGED <<vm, registry, adapters_settable, cfgVars>>

DeleteOk(t) ==
    /\ tasks[t].pc = "rpc"
    /\ tasks[t].wait = "delete"
    /\ registry' = registry \ {VM_ID}
    /\ vm' = [vm EXCEPT !.state = "Deleted"]
    /\ tasks' = [tasks EXCEPT ![t] = Finish(@, "none")]
    /\ UNCHANGED <<adapters_settable, cfgVars>>

\* ------------------------------------------------------------------ NIOs
NioPath(v, adapter_id) == NodePath(v, <<"adapters", ToString(adapter_id), "nio">>)

\* AddNioBinding accepting the index equal to the adapter count.
AddNioBindingOffByOne(task, v, adapter_id, nio) ==
    IF ~(0 <= adapter_id /\ adapter_id <= v.adapters)
    THEN Finish(task, "NotFoundError")
    ELSE IF adapter_id \in DOMAIN v.nios
         THEN Finish(task, "ConflictError")
         ELSE Suspend(task, "nio_add",
                      PostData(NioPath(v, adapter_id), [type |-> nio]))

\* AddNioBinding without the refusal of an index that holds a binding.
AddNioBindingOverwrite(task, v, adapter_id, nio) ==
    IF ~(0 <= adapter_id /\ adapter_id < v.adapters)
    THEN Finish(task, "NotFoundError")
    ELSE Suspend(task, "nio_add",
                 PostData(NioPath(v, adapter_id), [type |-> nio]))

\* adapter_add_nio_binding(adapter_id, nio) up to its remote call.
AddNioBinding(task, v, adapter_id, nio) ==
    IF ~(0 <= adapter_id /\ adapter_id < v.adapters)
    THEN Finish(task, "NotFoundError")
    ELSE IF adapter_id \in DOMAIN v.nios
         THEN Finish(task, "ConflictError")
         ELSE Suspend(task, "nio_add",
                      PostData(NioPath(v, adapter_id), [type |-> nio]))

\* create_nio: the binding factory, then adapter_add_nio_binding.
CreateNioCall(t) ==
    /\ tasks[t].pc = "idle"
    /\ GetVm
    /\ \E adapter_id \in 0..MaxAdapters, nio_spec \in NioSpecs :
          LET task == [Begin("add_nio") EXCEPT !.idx = adapter_id, !.nio = nio_spec]
          IN tasks' = [tasks EXCEPT ![t] =
                IF nio_spec \notin NioKinds
                THEN Finish(task, "ValidationError")
                ELSE AddNioBinding(task, vm, adapter_id, nio_spec)]
    /\ UNCHANGED <<vm, registry, adapters_settable, cfgVars>>

CreateNioOk(t) ==
    /\ tasks[t].pc = "rpc"
    /\ tasks[t].wait = "nio_add"
    /\ vm' = [vm EXCEPT !.nios = Put(@, tasks[t].idx, tasks[t].nio)]
    /\ tasks' = [tasks EXCEPT ![t] = Finish(@, "none")]
    /\ UNCHANGED <<registry, adapters_settable, cfgVars>>

\* adapter_remove_nio_binding(adapter_id) up to its remote call.
RemoveNioBinding(task, v, adapter_id) ==
    IF adapter_id \notin DOMAIN v.nios
    THEN Finish(task, "NotFoundError")
    ELSE Suspend(task, "nio_remove", Delete(NioPath(v, adapter_id)))

\* DeleteNioCall with the local entry dropped before the remote call answers.
DeleteNioCallEager(t) ==
    /\ tasks[t].pc = "idle"
    /\ GetVm
    /\ \E adapter_id \in 0..MaxAdapters :
          /\ tasks' = [tasks EXCEPT ![t] =
                RemoveNioBinding([Begin("remove_nio") EXCEPT !.idx = adapter_id],
                                 vm, adapter_id)]
          /\ vm' = [vm EXCEPT !.nios = [i \in DOMAIN @ \ {adapter_id} |-> @[i]]]
    /\ UNCHANGED <<registry, adapters_settable, cfgVars>>

\* delete_nio: get_vm, then adapter_remove_nio_binding.
DeleteNioCall(t) ==
    /\ tasks[t].pc = "idle"
    /\ GetVm
    /\ \E adapter_id \in 0..MaxAdapters :
          tasks' = [tasks EXCEPT ![t] =
                RemoveNioBinding([Begin("remove_nio") EXCEPT !.idx = adapter_id],
                                 vm, adapter_id)]
    /\ UNCHANGED <<vm, registry, adapters_settable, cfgVars>>

DeleteNioOk(t) ==
    /\ tasks[t].pc = "rpc"
    /\ tasks[t].wait = "nio_remove"
    /\ vm' = [vm EXCEPT !.nios = [i \in DOMAIN @ \ {tasks[t].idx} |-> @[i]]]
    /\ tasks' = [tasks EXCEPT ![t] = Finish(@, "none")]
    /\ UNCHANGED <<registry, adapters_settable, cfgVars>>

\* --------------------------------------------------------------- capture
\* A file system path: absolute or relative, and its components.
AbsPath(segs) == [abs |-> TRUE, segs |-> segs]
RelPath(segs) == [abs |-> FALSE, segs |-> segs]

\* vm.project.capture_working_directory()
CaptureWorkingDirectory == AbsPath(<<"projects", PROJECT_ID, "captures">>)

\* The values of "capture_file_name" in a request.
CaptureFileNames ==
    {RelPath(<<"a.pcap">>), RelPath(<<"sub", "a.pcap">>), AbsPath(<<"tmp", "a.pcap">>)}

\* OsPathJoin that appends b to a whatever b is.
OsPathJoinAppend(a, b) == [abs |-> a.abs, segs |-> a.segs \o b.segs]

\* os.path.join(a, b): an absolute b discards a.
OsPathJoin(a, b) == IF b.abs THEN b ELSE [abs |-> a.abs, segs |-> a.segs \o b.segs]

\* vm.start_capture(adapter_id, pcap_file_path), called and not awaited.
VmStartCapture(adapter_id, output_file) ==
    [call |-> "vm.start_capture", arg |-> <<ToString(adapter_id), output_file>>]

\* vm.stop_capture(adapter_id), called and not awaited.
VmStopCapture(adapter_id) ==
    [call |-> "vm.stop_capture", arg |-> <<ToString(adapter_id)>>]

\* The outcomes of a capture call of the Node: it returns or it raises.
CaptureOutcomes == {"none"} \cup RpcErrors

\* start_capture: get_vm, join the path, vm.start_capture, answer the path.
StartCapture(t) ==
    /\ tasks[t].pc = "idle"
    /\ GetVm
    /\ \E adapter_id \in 0..MaxAdapters, name \in CaptureFileNames,
          err \in CaptureOutcomes :
          LET pcap_file_path == OsPathJoin(CaptureWorkingDirectory, name)
              task == [Begin("start_capture") EXCEPT
                          !.idx = adapter_id, !.file = name,
                          !.rpcs = <<VmStartCapture(adapter_id, pcap_file_path)>>]
          IN tasks' = [tasks EXCEPT ![t] =
                IF err = "none"
                THEN Finish([task EXCEPT !.ret = pcap_file_path], "none")
                ELSE Finish(task, err)]
    /\ UNCHANGED <<vm, registry, adapters_settable, cfgVars>>

\* stop_capture: get_vm, vm.stop_capture, answer 204.
StopCapture(t) ==
    /\ tasks[t].pc = "idle"
    /\ GetVm
    /\ \E adapter_id \in 0..MaxAdapters, err \in CaptureOutcomes :
          tasks' = [tasks EXCEPT ![t] =
              Finish([Begin("stop_capture") EXCEPT
                         !.idx = adapter_id,
                         !.rpcs = <<VmStopCapture(adapter_id)>>], err)]
    /\ UNCHANGED <<vm, registry, adapters_settable, cfgVars>>

\* ------------------------------------------------------------ resumption
\* The awaited call failed: the error propagates out of the handler.
RpcFail(t) ==
    /\ tasks[t].pc = "rpc"
    /\ \E e \in RpcErrors : tasks' = [tasks EXCEPT ![t] = Finish(@, e)]
    /\ UNCHANGED <<vm, registry, adapters_settable, cfgVars>>

\* The handler has answered; the task is free for the next request.
Return(t) ==
    /\ tasks[t].pc = "done"
    /\ tasks' = [tasks EXCEPT ![t] = IdleTask]
    /\ UNCHANGED <<vm, registry, adapters_settable, cfgVars>>

\* ------------------------------------------------------------------ Next
\* One caller, each request awaited before the next is sent.
Next ==
    \E t \in SeqTasks :
        \/ CreateCall(t)
        \/ CreateOk(t, FixtureResponses)
        \/ \E a \in Actions : ActionCall(t, a)
        \/ ActionOk(t)
        \/ UpdateCall(t)
        \/ UpdateResume(t)
        \/ DeleteCall(t)
        \/ DeleteOk(t)
        \/ CreateNioCall(t)
        \/ CreateNioOk(t)
        \/ DeleteNioCall(t)
        \/ DeleteNioOk(t)
        \/ StartCapture(t)
        \/ StopCapture(t)
        \/ RpcFail(t)
        \/ Return(t)

Spec == Init /\ [][Next]_vars

\* The controller VM as test_vm.py drives it, over every construction of the
\* Node and every response of the engine.
NextCreate ==
    \E t \in SeqTasks :
        \/ CreateCall(t)
        \/ CreateOk(t, Responses)
        \/ \E a \in Actions : ActionCall(t, a)
        \/ ActionOk(t)
        \/ VmPostCall(t)
        \/ VmDeleteCall(t)
        \/ ForwardOk(t)
        \/ RpcFail(t)
        \/ Return(t)

SpecCreate == InitCreate /\ [][NextCreate]_vars

\* Two callers on the same Node, their lifecycle requests interleaved at the
\* awaited calls.
NextConc ==
    \E t \in Tasks :
        \/ CreateCall(t)
        \/ CreateOk(t, FixtureResponses)
        \/ \E a \in Actions : ActionCall(t, a)
        \/ ActionOk(t)
        \/ DeleteCall(t)
        \/ DeleteOk(t)
        \/ RpcFail(t)
        \/ Return(t)

SpecConc == Init /\ [][NextConc]_vars

\* The Config of the server: its callers, its timer and the files changing
\* under it.
NextConfig ==
    \/ WriteFile
    \/ RemoveFile
    \/ CheckConfigFileChange
    \/ \E section \in Sections \cup {DEFAULT} : GetSectionConfig(section)
    \/ \E section \in OverrideSections \cup {DEFAULT}, content \in OverrideContents :
          SetSectionConfig(section, content)

SpecConfig == InitConfig /\ [][NextConfig]_vars

\* ---------------------------------------------------------------- claims
CreateDone(t) == tasks[t].pc = "done" /\ tasks[t].op = "create" /\ tasks[t].err = "none"

\* C1: a create() of a Pending Node whose POST succeeds leaves the Node
\* Created with the console the engine returned, whatever console it held.
C1_CreateTakesEngineConsole ==
    \A t \in Tasks :
        CreateDone(t) =>
            /\ tasks[t].pre.state = "Pending"
            /\ vm.state = "Created"
            /\ vm.console = tasks[t].resp["console"]

\* C1 witness: a Node holding console 2048 is created and the engine returns 5000.
C1_Witness ==
    \E t \in Tasks :
        /\ CreateDone(t)
        /\ tasks[t].pre.console = "2048"
        /\ tasks[t].resp["console"] = "5000"
        /\ vm.console = "5000"

\* The keys of the Node whose local value is set, as create() is called.
SetKeys(v) ==
    {"vm_id", "name", "console_type"}
        \cup (IF v.console # None THEN {"console"} ELSE {})
        \cup {k \in DOMAIN v.properties : v.properties[k] # None}

C3_ResponseMergedIntoProperties ==
    \A t \in Tasks :
        CreateDone(t) =>
            LET r == tasks[t].resp
                before == tasks[t].pre.properties
            IN /\ \A k \in DOMAIN r \ {"console"} :
                    k \in DOMAIN vm.properties /\ vm.properties[k] = r[k]
               /\ \A k \in DOMAIN before \ DOMAIN r :
                    k \in DOMAIN vm.properties /\ vm.properties[k] = before[k]

\* C3 witness: the response brings test_value, unknown before, and the
\* startup_script the Node held, absent from the response, is kept.
C3_Witness ==
    \E t \in Tasks :
        /\ CreateDone(t)
        /\ "test_value" \in DOMAIN tasks[t].resp
        /\ "test_value" \notin DOMAIN tasks[t].pre.properties
        /\ "startup_script" \notin DOMAIN tasks[t].resp
        /\ vm.properties = [k \in {"startup_script", "test_value"} |->
                                IF k = "test_value" THEN "success" ELSE "echo test"]

UpdateDone(t) == tasks[t].pc = "done" /\ tasks[t].op = "update"

\* The calls of kind call among those the task has issued.
Calls(t, call) == {i \in 1..Len(tasks[t].rpcs) : tasks[t].rpcs[i].call = call}

\* C4: update({"adapters": N}) with N different from the adapter count issues
\* set_adapters(N) exactly once, and the count is not assigned by the generic
\* setattr: it still is the old one while set_adapters is awaited.
C4_ResizeIssuedOnce ==
    \A t \in Tasks :
        (/\ tasks[t].op = "update"
         /\ DOMAIN tasks[t].changes = {"adapters"}
         /\ tasks[t].changes["adapters"] # tasks[t].pre.adapters) =>
            /\ tasks[t].pc = "done" => tasks[t].rpcs = <<Resize(tasks[t].changes["adapters"])>>
            /\ tasks[t].pc = "rpc" => vm.adapters = tasks[t].pre.adapters

\* Whether the loop of update has come to the vmname key.
ReachedVmname(t) ==
    /\ "vmname" \in DOMAIN tasks[t].changes
    /\ \A i \in 1..Len(tasks[t].rem) : tasks[t].rem[i] # "vmname"

\* C5: an update whose vmname differs from the current one assigns vmname
\* locally and issues exactly one rename; one whose vmname equals the current
\* one issues no rename.
C5_RenameIffVmnameChanged ==
    \A t \in Tasks :
        (UpdateDone(t) /\ ReachedVmname(t)) =>
            IF tasks[t].changes["vmname"] # tasks[t].pre.vmname
            THEN /\ vm.vmname = tasks[t].changes["vmname"]
                 /\ Cardinality(Calls(t, "vm.rename_in_virtualbox")) = 1
                 /\ \A i \in Calls(t, "vm.rename_in_virtualbox") :
                        tasks[t].rpcs[i].arg = tasks[t].changes["vmname"]
            ELSE Calls(t, "vm.rename_in_virtualbox") = {}

\* C5 witness: update({"vmname": "x"}) on a Node named "vbox" has returned.
C5_Witness ==
    \E t \in Tasks :
        /\ UpdateDone(t) /\ tasks[t].err = "none"
        /\ DOMAIN tasks[t].changes = {"vmname"}
        /\ tasks[t].pre.vmname = "vbox" /\ vm.vmname = "x"
        /\ tasks[t].rpcs = <<[call |-> "vm.rename_in_virtualbox", arg |-> "x"]>>

\* C6: start, stop, suspend, resume and reload issue exactly one call, a POST
\* without body to /projects/{project_id}/{node_type}/vms/{node_id}/{action},
\* and when it fails the Node and the registry are as before the call.
C6_ActionOneRpcNoChangeOnFailure ==
    \A t \in Tasks :
        (tasks[t].op \in Actions /\ tasks[t].pc \in {"rpc", "done"}) =>
            /\ Len(tasks[t].rpcs) = 1
            /\ tasks[t].rpcs[1].call = "compute.post"
            /\ ~tasks[t].rpcs[1].body
            /\ tasks[t].rpcs[1].path =
                  <<"projects", PROJECT_ID, tasks[t].pre.node_type, "vms", VM_ID, tasks[t].op>>
            /\ (tasks[t].pc = "done" /\ tasks[t].err # "none") =>
                  (vm = tasks[t].pre /\ registry = tasks[t].preReg)

\* C6 witness: a reload of a started Node has failed.
C6_Witness ==
    \E t \in Tasks :
        /\ tasks[t].op = "reload" /\ tasks[t].pc = "done"
        /\ tasks[t].err \in RpcErrors
        /\ vm.state = "Started"

\* C7: add_nio at an index outside [0, adapters) fails with ValidationError
\* or NotFoundError, issues no call and leaves the NIO map as it was.
C7_AddNioOutOfRange ==
    \A t \in Tasks :
        (/\ tasks[t].op = "add_nio"
         /\ ~(0 <= tasks[t].idx /\ tasks[t].idx < tasks[t].pre.adapters)) =>
            /\ tasks[t].pc = "done"
            /\ tasks[t].err \in {"ValidationError", "NotFoundError"}
            /\ tasks[t].rpcs = <<>>
            /\ vm.nios = tasks[t].pre.nios

\* C7 witness: a well-formed NIO at the index equal to the adapter count was refused.
C7_Witness ==
    \E t \in Tasks :
        /\ tasks[t].op = "add_nio" /\ tasks[t].pc = "done"
        /\ tasks[t].nio \in NioKinds
        /\ tasks[t].pre.adapters > 0
        /\ tasks[t].idx = tasks[t].pre.adapters
        /\ tasks[t].err = "NotFoundError"

\* C8: a delete whose remote call fails leaves the Node in the registry and
\* intact and reports the error; one whose remote call succeeds removes it;
\* while the remote delete is awaited the Node is in the registry.
C8_DeleteOnlyAfterRemoteSuccess ==
    \A t \in Tasks :
        tasks[t].op = "delete" =>
            /\ tasks[t].pc = "rpc" => (VM_ID \in registry /\ vm = tasks[t].pre)
            /\ (tasks[t].pc = "done" /\ tasks[t].err # "none") =>
                  (tasks[t].err \in RpcErrors /\ VM_ID \in registry /\ vm = tasks[t].pre)
            /\ (tasks[t].pc = "done" /\ tasks[t].err = "none") => VM_ID \notin registry

\* C8 witness: a delete has failed remotely and the Node is still registered.
C8_Witness ==
    \E t \in Tasks :
        /\ tasks[t].op = "delete" /\ tasks[t].pc = "done"
        /\ tasks[t].err \in RpcErrors
        /\ VM_ID \in registry

\* C9: after an update with adapters N has succeeded, the adapter count is N,
\* no binding is left at an index >= N and every binding below N is as before.
C9_ResizeReconcilesNios ==
    \A t \in Tasks :
        (UpdateDone(t) /\ tasks[t].err = "none" /\ "adapters" \in DOMAIN tasks[t].changes) =>
            LET N == tasks[t].changes["adapters"]
                before == tasks[t].pre.nios
            IN /\ vm.adapters = N
               /\ \A i \in DOMAIN vm.nios : i < N
               /\ \A i \in DOMAIN before :
                    i < N => (i \in DOMAIN vm.nios /\ vm.nios[i] = before[i])

\* C10: every key of the NIO map lies in [0, adapters).
C10_NioKeysWithinAdapters ==
    \A i \in DOMAIN vm.nios : 0 <= i /\ i < vm.adapters

\* C11: post(sub_path, body) and delete(sub_path) issue exactly one call, to
\* /projects/{project_id}/{node_type}/vms/{node_id} followed by sub_path,
\* post with body as its data, and change no field of the Node.
C11_PostDeleteForwardOnly ==
    \A t \in Tasks :
        (tasks[t].op \in {"post", "delete_sub"} /\ tasks[t].pc \in {"rpc", "done"}) =>
            /\ Len(tasks[t].rpcs) = 1
            /\ tasks[t].rpcs[1].path =
                  <<"projects", PROJECT_ID, tasks[t].pre.node_type, "vms", VM_ID>>
                      \o tasks[t].sub_path
            /\ IF tasks[t].op = "post"
               THEN /\ tasks[t].rpcs[1].call = "compute.post"
                    /\ tasks[t].rpcs[1].body
                    /\ tasks[t].rpcs[1].data = tasks[t].body
               ELSE /\ tasks[t].rpcs[1].call = "compute.delete"
                    /\ ~tasks[t].rpcs[1].body
            /\ vm = tasks[t].pre
            /\ registry = tasks[t].preReg

\* C11 witness: post("/test", {"a": "b"}) has answered.
C11_Witness ==
    \E t \in Tasks :
        /\ tasks[t].op = "post" /\ tasks[t].pc = "done" /\ tasks[t].err = "none"
        /\ tasks[t].sub_path = <<"test">>
        /\ tasks[t].rpcs[1].data = [k \in {"a"} |-> "b"]
        /\ tasks[t].rpcs[1].path = <<"projects", "P", "vpcs", "vms", "n", "test">>

\* The operation op of some task has just been confirmed by the engine.
Confirmed(ops) ==
    \E t \in Tasks :
        /\ tasks[t].pc = "rpc" /\ tasks[t].op \in ops
        /\ tasks'[t].pc = "done" /\ tasks'[t].err = "none"

\* C12: the lifecycle state changes only
\* along Pending -> Created (confirmed create), Created/Started/Stopped/
\* Suspended -> Started (start, resume, reload), -> Stopped (stop, reload),
\* -> Suspended (suspend), -> Deleted (confirmed delete); nothing leaves
\* Deleted and nothing but a confirmed create leaves Pending.
C12_LifecycleEdges ==
    [][vm'.state # vm.state =>
        \/ vm.state = "Pending" /\ vm'.state = "Created" /\ Confirmed({"create"})
        \/ /\ vm.state \in {"Created", "Started", "Stopped", "Suspended"}
           /\ \/ vm'.state = "Started" /\ Confirmed({"start", "resume", "reload"})
              \/ vm'.state = "Stopped" /\ Confirmed({"stop", "reload"})
              \/ vm'.state = "Suspended" /\ Confirmed({"suspend"})
              \/ vm'.state = "Deleted" /\ Confirmed({"delete"})]_vars

C14_RemoveNioAfterRemoteSuccess ==
    \A t \in Tasks :
        tasks[t].op = "remove_nio" =>
            IF tasks[t].idx \notin DOMAIN tasks[t].pre.nios
            THEN /\ tasks[t].pc = "done"
                 /\ tasks[t].err = "NotFoundError"
                 /\ tasks[t].rpcs = <<>>
                 /\ vm = tasks[t].pre
            ELSE /\ Len(tasks[t].rpcs) = 1
                 /\ tasks[t].rpcs[1].call = "compute.delete"
                 /\ IF tasks[t].pc = "done" /\ tasks[t].err = "none"
                    THEN /\ DOMAIN vm.nios = DOMAIN tasks[t].pre.nios \ {tasks[t].idx}
                         /\ \A i \in DOMAIN vm.nios : vm.nios[i] = tasks[t].pre.nios[i]
                         /\ [vm EXCEPT !.nios = tasks[t].pre.nios] = tasks[t].pre
                    ELSE vm = tasks[t].pre

\* C14 witness: the DELETE of the binding at index 0 failed and the binding
\* is still there.
C14_Witness ==
    \E t \in Tasks :
        /\ tasks[t].op = "remove_nio" /\ tasks[t].pc = "done"
        /\ tasks[t].err \in RpcErrors
        /\ tasks[t].idx = 0
        /\ 0 \in DOMAIN vm.nios

\* C15: a start_capture that answers returns the capture directory followed
\* by a relative file name (an absolute file name as it is, as os.path.join
\* does), the very path it handed to vm.start_capture; start_capture and
\* stop_capture leave the Node and the registry as they were.
C15_CapturePathAndFrame ==
    \A t \in Tasks :
        /\ (tasks[t].op = "start_capture" /\ tasks[t].err = "none") =>
              /\ tasks[t].ret =
                    IF tasks[t].file.abs
                    THEN tasks[t].file
                    ELSE [abs |-> TRUE,
                          segs |-> <<"projects", PROJECT_ID, "captures">>
                                       \o tasks[t].file.segs]
              /\ tasks[t].rpcs = <<[call |-> "vm.start_capture",
                                    arg |-> <<ToString(tasks[t].idx), tasks[t].ret>>]>>
        /\ tasks[t].op \in {"start_capture", "stop_capture"} =>
              /\ tasks[t].pc = "done"
              /\ vm = tasks[t].pre
              /\ registry = tasks[t].preReg

\* C15 witness: a capture to "a.pcap" on adapter 1 has answered with the path
\* under the capture directory.
C15_Witness ==
    \E t \in Tasks :
        /\ tasks[t].op = "start_capture" /\ tasks[t].pc = "done"
        /\ tasks[t].err = "none"
        /\ tasks[t].idx = 1
        /\ tasks[t].ret = AbsPath(<<"projects", PROJECT_ID, "captures", "a.pcap">>)

\* C17: in update(), the vmname and the adapter count change only once the
\* rename or the resize has been confirmed: while such a call is awaited, and
\* when it has failed, both equal their values before the update.
C17_DedicatedRpcConfirmsFirst ==
    \A t \in Tasks :
        (/\ tasks[t].op = "update"
         /\ tasks[t].pc = "rpc" \/ tasks[t].err \in RpcErrors) =>
            /\ vm.vmname = tasks[t].pre.vmname
            /\ vm.adapters = tasks[t].pre.adapters

\* The members of the set of indices S in ascending order.
Ascending(S) ==
    CHOOSE s \in [1..Cardinality(S) -> S] : \A i, j \in DOMAIN s : i < j => s[i] < s[j]

\* C18: an update that answers and resizes to N below bindings of the Node
\* has removed remotely the bindings at the indices >= N, in ascending order,
\* and then issued the resize, once, after them.
C18_ResizeDropsAscending ==
    \A t \in Tasks :
        (/\ UpdateDone(t) /\ tasks[t].err = "none"
         /\ "adapters" \in DOMAIN tasks[t].changes
         /\ \E i \in DOMAIN tasks[t].pre.nios : i >= tasks[t].changes["adapters"]) =>
            LET N == tasks[t].changes["adapters"]
                drop == Ascending({i \in DOMAIN tasks[t].pre.nios : i >= N})
                dels == Calls(t, "compute.delete")
                resizes == Calls(t, "vm.set_adapters")
            IN /\ Cardinality(dels) = Len(drop)
               /\ \A k \in DOMAIN drop :
                     \E d \in dels :
                        /\ Cardinality({e \in dels : e < d}) = k - 1
                        /\ tasks[t].rpcs[d].path = NioPath(tasks[t].pre, drop[k])
               /\ Cardinality(resizes) = 1
               /\ \A d \in dels, r \in resizes : d < r

\* C19: nothing serializes start() and delete() on one Node: while one of
\* them awaits its call, the other can be issued by an idle caller as long as
\* the Node is known; and a start or a delete that is suspended has issued
\* exactly its one call, which is where it is suspended.
C19_NoSerialization ==
    \A t, u \in Tasks :
        t # u =>
            /\ (/\ tasks[t].op = "start" /\ tasks[t].pc = "rpc"
                /\ tasks[u].pc = "idle" /\ GetVm) => ENABLED DeleteCall(u)
            /\ (/\ tasks[t].op = "delete" /\ tasks[t].pc = "rpc"
                /\ tasks[u].pc = "idle" /\ GetVm) => ENABLED ActionCall(u, "start")
            /\ (tasks[t].op = "start" /\ tasks[t].pc = "rpc") =>
                  tasks[t].rpcs = <<Post(NodePath(tasks[t].pre, <<"start">>))>>
            /\ (tasks[t].op = "delete" /\ tasks[t].pc = "rpc") =>
                  tasks[t].rpcs = <<Delete(NodePath(tasks[t].pre, <<>>))>>

\* C19 witness: a start and a delete of the same Node are both awaiting
\* their calls.
C19_Witness ==
    \E t, u \in Tasks :
        /\ tasks[t].op = "start" /\ tasks[t].pc = "rpc"
        /\ tasks[u].op = "delete" /\ tasks[u].pc = "rpc"

\* C16: get_section_config(section) gives the named section when the
\* configuration has it and the DEFAULT section when it has not, with the
\* keys that section shows; it raises nothing and leaves the configuration
\* as it is.
C16_GetSectionOrDefault ==
    [][\A section \in Sections \cup {DEFAULT} :
          GetSectionConfig(section) =>
              /\ result'.err = "none"
              /\ result'.name = IF section = DEFAULT \/ section \in DOMAIN config
                                THEN section ELSE DEFAULT
              /\ result'.content =
                    [k \in DOMAIN config[DEFAULT] \cup DOMAIN config[result'.name] |->
                        IF k \in DOMAIN config[result'.name]
                        THEN config[result'.name][k] ELSE config[DEFAULT][k]]
              /\ config' = config
              /\ override_config' = override_config]_vars

\* C16 witness: "Qemu" was asked for while the configuration has a "Server"
\* section only, and the DEFAULT section came back.
C16_Witness ==
    /\ result.op = "get" /\ result.section = "Qemu" /\ result.name = DEFAULT
    /\ result.err = "none"
    /\ "Qemu" \notin DOMAIN config
    /\ "Server" \in DOMAIN config

\* C20: after a periodic check, re-reading or not, every key that was passed
\* to set_section_config holds in its section the value last passed for it.
C20_OverrideSurvivesCheck ==
    [][CheckConfigFileChange =>
          \A s \in DOMAIN overridden : \A k \in DOMAIN overridden[s] :
              /\ s \in DOMAIN config'
              /\ k \in DOMAIN config'[s]
              /\ config'[s][k] = overridden[s][k]]_vars

\* C21: the watcher never stops: whatever the periodic check met, exactly one
\* next check is scheduled once it has run.
C21_WatcherAlwaysScheduled == timers = 1

\* The files a read of the disk d has read in whole: those that are there,
\* up to the first that does not parse.
ReRead(d) ==
    {Files[i] : i \in {j \in DOMAIN Files :
        /\ d[Files[j]].exists
        /\ \A k \in 1..j : d[Files[k]].exists => d[Files[k]].parses}}

\* C22: the periodic check calls read_config exactly when a watched file has
\* an mtime different from the recorded one; after such a check the recorded
\* mtime of every file it read is the one on disk, and a check that follows
\* with the files as they are would not read again.
C22_RereadIffMtimeDiffers ==
    [][CheckConfigFileChange =>
          /\ (result'.name = "read") <=>
                \E f \in DOMAIN watched_files :
                    disk[f].exists /\ disk[f].mtime # watched_files[f]
          /\ (result'.name = "read") =>
                /\ \A f \in ReRead(disk) :
                      f \in DOMAIN watched_files' /\ watched_files'[f] = disk[f].mtime
                /\ ~\E f \in DOMAIN watched_files' :
                      disk'[f].exists /\ disk'[f].mtime # watched_files'[f]]_vars

\* C23: under any interleaving, a Node that a delete has made Deleted and
\* taken out of the registry stays Deleted and out of the registry, whatever
\* call that was in flight completes afterwards.
C23_DeletedIsFinal ==
    [][(vm.state = "Deleted" /\ VM_ID \notin registry) =>
          (vm'.state = "Deleted" /\ VM_ID \notin registry')]_vars

====
